---- MODULE Spec2Model ----
(***************************************************************************)
(* A model of the ray-propagation core of beams (src/src/main.rs): the     *)
(* ray/segment intersection test, the event-driven raycast_system that     *)
(* scans the surfaces for a hit and refracts or absorbs, and setup_system  *)
(* that samples a beam into root rays and sends one RaycastEvent per ray.  *)
(*                                                                         *)
(* Numbers.  The program computes in f32.  The model computes exactly, in  *)
(* rationals <<num, den>> (den > 0, lowest terms), with the two f32        *)
(* specials the code can produce: INFINITY == <<1, 0>> and NaN == <<0, 0>>.*)
(* A direction component sqrt(1 - s^2) that is not rational is kept        *)
(* symbolically as <<num, den, "sqrt">>, the square root of num/den.       *)
(* A Vec2 is a pair of numbers.                                            *)
(***************************************************************************)
EXTENDS Integers, Sequences, FiniteSets, TLC

\* ------------------------------------------------------------ bounds
\* Longest surface list of a scene.
MaxSurfaces == 2
\* Number of change notifications the environment sends after startup.
MaxChanges == 1
\* The maximum-depth bound of a tree build, at its documented default.  The
\* code has no such parameter; the properties compare the built trees with it.
MaxDepth == 64

\* ------------------------------------------------------------ exact numbers
Abs(x) == IF x < 0 THEN -x ELSE x

Sgn(x) == IF x < 0 THEN -1 ELSE IF x > 0 THEN 1 ELSE 0

RECURSIVE GCD(_, _)
GCD(a, b) == IF b = 0 THEN a ELSE GCD(b, a % b)

\* The rational n/d in lowest terms with a positive denominator (d # 0).
Q(n, d) ==
    LET g == GCD(Abs(n), Abs(d))
        s == IF d < 0 THEN -1 ELSE 1
    IN  <<(s * n) \div g, (s * d) \div g>>

INFINITY == <<1, 0>>

NaN == <<0, 0>>

IsRat(a) == Len(a) = 2 /\ a[2] > 0

IsSqrt(a) == Len(a) = 3

is_finite(a) == IsRat(a)

Z(n) == <<n, 1>>

QAdd(a, b) == Q(a[1] * b[2] + b[1] * a[2], a[2] * b[2])

QSub(a, b) == Q(a[1] * b[2] - b[1] * a[2], a[2] * b[2])

QMul(a, b) == Q(a[1] * b[1], a[2] * b[2])

QNeg(a) == <<-a[1], a[2]>>

QSgn(a) == Sgn(a[1])

QAbs(a) == <<Abs(a[1]), a[2]>>

\* f32 division of finite values: x/0 is an infinity (here only its being
\* non-finite matters) and 0/0 is NaN.
QDiv(a, b) ==
    IF b[1] = 0 THEN (IF a[1] = 0 THEN NaN ELSE INFINITY)
    ELSE Q(a[1] * b[2], a[2] * b[1])

\* Comparisons of finite values.
QLt(a, b) == a[1] * b[2] < b[1] * a[2]

QLe(a, b) == a[1] * b[2] <= b[1] * a[2]

\* The integer square root of a perfect square n, or -1.
RECURSIVE ISqrtFrom(_, _)
ISqrtFrom(n, k) ==
    IF k * k = n THEN k ELSE IF k * k > n THEN -1 ELSE ISqrtFrom(n, k + 1)

ISqrt(n) == ISqrtFrom(n, 0)

\* The sign of a + b*sqrt(r) for rationals a, b and r >= 0.
SgnSurd(a, b, r) ==
    LET sa == QSgn(a)
        sb == IF QSgn(r) = 0 THEN 0 ELSE QSgn(b)
    IN  IF sb = 0 THEN sa
        ELSE IF sa = 0 \/ sa = sb THEN sb
        ELSE LET a2 == QMul(a, a)
                 b2r == QMul(QMul(b, b), r)
             IN  IF QLt(b2r, a2) THEN sa ELSE IF QLt(a2, b2r) THEN sb ELSE 0

\* ------------------------------------------------------------ Vec2 (glam)
Vec2(x, y) == <<x, y>>

VZ(x, y) == <<Z(x), Z(y)>>

VAdd(a, b) == <<QAdd(a[1], b[1]), QAdd(a[2], b[2])>>

VSub(a, b) == <<QSub(a[1], b[1]), QSub(a[2], b[2])>>

VScale(a, k) == <<QMul(a[1], k), QMul(a[2], k)>>

dot(a, b) == QAdd(QMul(a[1], b[1]), QMul(a[2], b[2]))

\* Vec2::perp_dot: a.x*b.y - a.y*b.x.
perp_dot(a, b) == QSub(QMul(a[1], b[2]), QMul(a[2], b[1]))

\* Vec2::perp: the vector rotated by 90 degrees.
perp(a) == <<QNeg(a[2]), a[1]>>

IsNaNVec(a) == a[1] = NaN \/ a[2] = NaN

IsRatVec(a) == IsRat(a[1]) /\ IsRat(a[2])

\* |a|^2.
length_squared(a) == dot(a, a)

\* Vec2::length, for the vectors of the model, whose length is rational.
length(a) ==
    LET l2 == length_squared(a)
    IN  Q(ISqrt(l2[1]), ISqrt(l2[2]))

\* Vec2::normalize, for the vectors of the model, whose length is rational;
\* NaN stays NaN, and a unit vector with a symbolic component stays as it is.
normalize(a) ==
    IF IsNaNVec(a) THEN <<NaN, NaN>>
    ELSE IF ~IsRatVec(a) THEN a
    ELSE LET l == length(a)
         IN  <<QDiv(a[1], l), QDiv(a[2], l)>>

\* "angle_between(a1, b1) > angle_between(a2, b2)" for unit vectors.  glam's
\* angle_between is acos(a.b) * signum(a.perp_dot(b)), and signum(0.0) is 1.0.
angle_between_gt(a1, b1, a2, b2) ==
    LET c1 == dot(a1, b1)
        c2 == dot(a2, b2)
        s1 == IF QSgn(perp_dot(a1, b1)) < 0 THEN -1 ELSE 1
        s2 == IF QSgn(perp_dot(a2, b2)) < 0 THEN -1 ELSE 1
    IN  IF c1 = Z(1) /\ c2 = Z(1) THEN FALSE
        ELSE IF s1 # s2 THEN s1 > s2
        ELSE IF s1 = 1 THEN QLt(c1, c2)
        ELSE QLt(c2, c1)

\* Vec2::from_angle(x.asin()): (cos(asin x), sin(asin x)) = (sqrt(1-x^2), x),
\* and NaN in both components when asin is undefined (NaN, or |x| > 1).
from_angle_asin(x) ==
    IF ~IsRat(x) \/ QLt(Z(1), QAbs(x)) THEN <<NaN, NaN>>
    ELSE LET c2 == QSub(Z(1), QMul(x, x))
             n == ISqrt(c2[1])
             d == ISqrt(c2[2])
         IN  IF n >= 0 /\ d >= 0 THEN <<Q(n, d), x>>
             ELSE <<(<<c2[1], c2[2], "sqrt">>), x>>

\* ------------------------------------------------------------ data
None == <<>>

Some(x) == <<x>>

\* BeamSource::new: wavelength 532 and ambient index 1.0 are fixed.
BeamSource_new(pos, direction, waist) ==
    [pos |-> pos, direction |-> direction, waist |-> waist,
     w |-> Z(532), index |-> Z(1)]

\* Ray::new: intensity 1.0 and wavelength 532 are fixed.
Ray_new(p, l, index) ==
    [p |-> p, l |-> l, i |-> Z(1), index |-> index, w |-> Z(532)]

\* RayTree::new: the root ray and no branches.
RayTree_new(ray) == [root |-> ray, branches |-> <<>>]

\* Surface::glass: transparent (absorption 0.0), with the given index.
Surface_glass(p1, p2, index) ==
    [p1 |-> p1, p2 |-> p2, dp |-> VSub(p2, p1),
     length |-> length(VSub(p2, p1)),
     normal |-> perp(normalize(VSub(p2, p1))),
     index |-> index, reflection |-> Z(0), absorption |-> Z(0)]

\* Surface::blocker: opaque (absorption 1.0), index 1.0.
Surface_blocker(p1, p2) ==
    [p1 |-> p1, p2 |-> p2, dp |-> VSub(p2, p1),
     length |-> length(VSub(p2, p1)),
     normal |-> perp(normalize(VSub(p2, p1))),
     index |-> Z(1), reflection |-> Z(0), absorption |-> Z(1)]

\* const RAY_DENSITY: f32 = 0.2.
RAY_DENSITY == Q(1, 5)

\* `x as usize` of a finite x >= 0: truncation.
as_usize(x) == x[1] \div x[2]

\* itertools_num::linspace(a, b, n): n values from a in steps of
\* (b - a)/(n - 1), or just a when n = 1.
linspace(a, b, n) ==
    LET step == IF n > 1 THEN QDiv(QSub(b, a), Z(n - 1)) ELSE Z(0)
    IN  [k \in 1..n |-> QAdd(a, QMul(step, Z(k - 1)))]

\* ------------------------------------------------------------ geometry kernel
\* Mutant of is_parallel: only an exactly zero denominator is parallel.
is_parallel_exact(d) == d = Z(0)

\* The parallel test of intersect: dot.abs() < 0.000001.
is_parallel(d) == QLt(QAbs(d), Q(1, 1000000))

\* Mutant of in_range: the test t1 >= 0.0 is missing.
in_range_unsigned(t1, t2) == QLe(Z(0), t2) /\ QLe(t2, Z(1))

\* The acceptance test of intersect on the ray parameter t1 and the segment
\* parameter t2.
in_range(t1, t2) == QLe(Z(0), t1) /\ QLe(Z(0), t2) /\ QLe(t2, Z(1))

\* intersect(ray, surface): the ray parameter of the crossing, or INFINITY.
\* A NaN direction makes every comparison false, which ends in INFINITY.
intersect(ray, surface) ==
    IF IsNaNVec(ray.l) THEN INFINITY
    ELSE
    LET v1 == VSub(ray.p, surface.p1)
        v2 == VSub(surface.p2, surface.p1)
        v3 == Vec2(QNeg(ray.l[2]), ray.l[1])
        d == dot(v2, v3)
    IN  IF is_parallel(d) THEN INFINITY
        ELSE LET cross == perp_dot(v2, v1)
                 t1 == QDiv(cross, d)
                 t2 == QDiv(dot(v1, v3), d)
             IN  IF in_range(t1, t2) THEN t1 ELSE INFINITY

\* The denominator of intersect for a ray of finite direction: the local
\* `dot`, v2.dot(v3) with v2 = p2 - p1 and v3 = (-l.y, l.x).
denominator(ray, surface) ==
    dot(VSub(surface.p2, surface.p1), Vec2(QNeg(ray.l[2]), ray.l[1]))

\* intersect reaches its two divisions by `dot`: the early return of the
\* parallel test was not taken.  (A NaN `dot` fails the test and divides.)
divides(ray, surface) ==
    IsNaNVec(ray.l) \/ ~is_parallel(denominator(ray, surface))

\* ------------------------------------------------------------ interaction
\* The hit test of raycast_system: d.is_finite() && d > 0.1.
is_hit(d) == is_finite(d) /\ QLt(Q(1, 10), d)

\* Mutant of refracts: absorption <= 1.0 lets a blocker refract.
refracts_le(surface) == QLe(surface.absorption, Z(1))

\* surface.absorption < 1.0: the surface lets a refracted ray through.
refracts(surface) == QLt(surface.absorption, Z(1))

\* The normal raycast_system refracts about: the comparison of
\* surface.normal.angle_between(ray.l) with itself chooses.
refraction_normal(surface, ray) ==
    IF angle_between_gt(surface.normal, ray.l, surface.normal, ray.l)
    THEN surface.normal
    ELSE VScale(surface.normal, Z(-1))

\* The argument of asin: (ray.index * normal.perp_dot(ray.l)) / surface.index.
refracted_sin(ray, normal, surface) ==
    QDiv(QMul(ray.index, perp_dot(normal, ray.l)), surface.index)

\* The point ray.p + ray.l * d.
hit_point(ray, d) == VAdd(ray.p, VScale(ray.l, d))

\* The child ray pushed onto tree.branches at a hit on a refracting surface.
child_ray(ray, d, surface) ==
    Ray_new(hit_point(ray, d),
            normalize(from_angle_asin(
                refracted_sin(ray, refraction_normal(surface, ray), surface))),
            surface.index)

\* ------------------------------------------------------------ inputs
\* The sources of the scene: the beam of setup_system is source 1.
Sources == {1, 2}

\* The surfaces a scene is drawn from: two glass walls of opposite
\* orientation, an oblique glass segment, a blocking wall and a blocking
\* floor (every one of integer length, so that its unit normal is rational).
Candidates ==
    { Surface_glass(VZ(5, 0), VZ(5, 12), Q(3, 2)),
      Surface_glass(VZ(9, 12), VZ(9, 0), Z(1)),
      Surface_glass(VZ(6, 0), VZ(9, 4), Z(1)),
      Surface_blocker(VZ(11, 0), VZ(11, 12)),
      Surface_blocker(VZ(0, 0), VZ(12, 0)) }

\* The surface lists of up to MaxSurfaces distinct candidates, in every
\* declaration order.
RECURSIVE ScenesOfLen(_)
ScenesOfLen(n) ==
    IF n = 0 THEN {<<>>}
    ELSE { Append(sc, c) : sc \in ScenesOfLen(n - 1), c \in Candidates }

Scenes ==
    { sc \in UNION { ScenesOfLen(n) : n \in 0..MaxSurfaces } :
        \A i, j \in 1..Len(sc) : i # j => sc[i] # sc[j] }

\* The beams setup_system is run with: position, unit direction, waist.
Beams ==
    { BeamSource_new(VZ(2, 6), VZ(1, 0), Z(10)),
      BeamSource_new(VZ(2, 6), Vec2(Q(4, 5), Q(-3, 5)), Z(5)) }

\* The rays a change notification carries.
ChangeRays ==
    { Ray_new(VZ(7, 6), VZ(1, 0), Q(3, 2)),
      Ray_new(VZ(7, 3), Vec2(Q(3, 5), Q(4, 5)), Q(3, 2)),
      Ray_new(VZ(10, 6), VZ(-1, 0), Z(1)) }

\* The tree a source owns in the store before its first rebuild.
OldTree(s) ==
    [id |-> s, src |-> s, tree |-> RayTree_new(Ray_new(VZ(2, 6), VZ(1, 0), Z(1)))]

\* The contents the tree store may start with: empty, or every source
\* owning one tree.
InitialStores == { {}, { OldTree(s) : s \in Sources } }

\* ------------------------------------------------------------ state
VARIABLES
    started,    \* setup_system has run
    beam,       \* the BeamSource entity, None before startup
    surfaces,   \* the Surface entities, in query iteration order
    trees,      \* the RayTree entities of the world: [id, src, tree]
    segments,   \* the RaySegment entities: <<from, to>>
    events,     \* the unread RaycastEvents, oldest first
    commands,   \* the deferred Commands of raycast_system, in order
    iter,       \* the last iteration of raycast_system's loop, None at first
    sent,       \* every event ever sent, in order (history)
    handled,    \* the ids of the events handled, in order (history)
    changes,    \* number of change notifications sent
    work        \* per source: intersect calls made and root rays processed

vars == <<started, beam, surfaces, trees, segments, events, commands, iter,
          sent, handled, changes, work>>

Init ==
    /\ started = FALSE
    /\ beam = None
    /\ surfaces = <<>>
    /\ trees \in InitialStores
    /\ segments = {}
    /\ events = <<>>
    /\ commands = <<>>
    /\ iter = None
    /\ sent = <<>>
    /\ handled = <<>>
    /\ changes = 0
    /\ work = [s \in Sources |-> [tests |-> 0, rays |-> 0]]

\* struct RaycastEvent { ray, tree }; eid and src identify the event and the
\* source it is about for the properties, the code does not read them.
RaycastEvent(eid, src, ray, tree) ==
    [eid |-> eid, src |-> src, ray |-> ray, tree |-> tree]

\* ------------------------------------------------------------ setup_system
\* The offsets sampled across the waist.
sample_offsets(b) ==
    linspace(QDiv(QNeg(b.waist), Z(2)), QDiv(b.waist, Z(2)),
             as_usize(QMul(b.waist, RAY_DENSITY)))

\* The root ray of one sampled offset x.
beam_ray(b, x) ==
    Ray_new(VAdd(b.pos, VScale(Vec2(QNeg(b.direction[2]), b.direction[1]), x)),
            b.direction,
            Z(1))

\* Mutant of setup_events: the event of every offset is sent twice.
setup_events_twice(b) ==
    LET xs == sample_offsets(b)
        n == Len(xs)
    IN  [k \in 1..(2 * n) |->
            RaycastEvent(k, 1, Some(beam_ray(b, xs[((k - 1) % n) + 1])), None)]

\* The events setup_system sends: one per sampled offset, naming no tree.
setup_events(b) ==
    LET xs == sample_offsets(b)
    IN  [k \in 1..Len(xs) |-> RaycastEvent(k, 1, Some(beam_ray(b, xs[k])), None)]

\* The startup system: spawns the beam, sends the root rays' events and
\* spawns the surfaces of the scene.
setup_system ==
    /\ ~started
    /\ \E b \in Beams, sc \in Scenes :
          /\ beam' = Some(b)
          /\ events' = events \o setup_events(b)
          /\ sent' = sent \o setup_events(b)
          /\ surfaces' = sc
    /\ started' = TRUE
    /\ UNCHANGED <<trees, segments, commands, iter, handled, changes, work>>

\* ------------------------------------------------------------ notifications
\* The tree the store holds for source s, as an Option<Entity>.
tree_of(s) ==
    IF \E t \in trees : t.src = s
    THEN Some((CHOOSE t \in trees : t.src = s).id)
    ELSE None

\* The environment reports a source changed: an event with the source's new
\* ray (or none) and the tree the source owns (or none).
source_changed ==
    /\ started
    /\ changes < MaxChanges
    /\ \E s \in Sources, r \in { Some(x) : x \in ChangeRays } \cup {None} :
          LET ev == RaycastEvent(Len(sent) + 1, s, r, tree_of(s))
          IN  /\ events' = Append(events, ev)
              /\ sent' = Append(sent, ev)
    /\ changes' = changes + 1
    /\ UNCHANGED <<started, beam, surfaces, trees, segments, commands, iter,
                   handled, work>>

\* ------------------------------------------------------------ raycast_system
\* The state of the 'surfaces loop for one ray, before any surface is
\* visited: the fresh tree of RayTree::new and nothing spawned.
scan_start(ray) ==
    [tree |-> RayTree_new(ray), ds |-> <<>>, sel |-> 0, normal |-> None,
     spawned |-> <<>>, stop |-> FALSE]

\* Mutant of break_surfaces: the scan goes on after a hit.
no_break == FALSE

\* `break 'surfaces` ends the scan at the first hit.
break_surfaces == TRUE

\* The body of the 'surfaces loop for one surface (the i-th of the query):
\* the intersection test and, at a hit, the segment spawned, the child ray
\* pushed when the surface refracts, and the break.
visit(ray, surface, i, acc) ==
    LET d == intersect(ray, surface)
    IN  IF is_hit(d)
        THEN [tree |-> IF refracts(surface)
                       THEN [acc.tree EXCEPT
                               !.branches = Append(@, child_ray(ray, d, surface))]
                       ELSE acc.tree,
              ds |-> Append(acc.ds, d),
              sel |-> i,
              normal |-> IF refracts(surface)
                         THEN Some(refraction_normal(surface, ray))
                         ELSE acc.normal,
              spawned |-> Append(acc.spawned, <<ray.p, hit_point(ray, d)>>),
              stop |-> break_surfaces]
        ELSE [acc EXCEPT !.ds = Append(@, d)]

\* The 'surfaces loop from the i-th surface on.
RECURSIVE scan(_, _, _, _)
scan(ray, ss, i, acc) ==
    IF i > Len(ss) \/ acc.stop THEN acc
    ELSE scan(ray, ss, i + 1, visit(ray, ss[i], i, acc))

\* commands.entity(old_tree).despawn(), queued when the event names a tree.
despawn_command(tree) ==
    IF tree # None THEN << <<"despawn", tree[1]>> >> ELSE <<>>

\* commands.spawn(...).insert(RaySegment), queued per segment.
spawn_commands(spawned) ==
    [k \in 1..Len(spawned) |-> <<"spawn", spawned[k]>>]

\* One iteration of the event loop: the oldest unread event is read; with a
\* ray, the tree the event names is queued for despawn, a fresh tree is
\* built by the 'surfaces loop and the segments are queued for spawn.  The
\* built tree is a local of the iteration: it is kept in iter, not spawned.
raycast_system ==
    /\ events # <<>>
    /\ LET ev == Head(events)
       IN  /\ events' = Tail(events)
           /\ handled' = Append(handled, ev.eid)
           /\ IF ev.ray # None
              THEN LET ray == ev.ray[1]
                       acc == scan(ray, surfaces, 1, scan_start(ray))
                   IN  /\ commands' = commands \o despawn_command(ev.tree)
                                               \o spawn_commands(acc.spawned)
                       /\ iter' = Some([eid |-> ev.eid, src |-> ev.src,
                                        ray |-> ev.ray, named |-> ev.tree,
                                        tree |-> Some(acc.tree),
                                        ds |-> acc.ds, sel |-> acc.sel,
                                        normal |-> acc.normal])
                       /\ work' = [work EXCEPT
                                     ![ev.src].tests = @ + Len(acc.ds),
                                     ![ev.src].rays = @ + 1]
              ELSE /\ iter' = Some([eid |-> ev.eid, src |-> ev.src,
                                    ray |-> None, named |-> ev.tree,
                                    tree |-> None, ds |-> <<>>, sel |-> 0,
                                    normal |-> None])
                   /\ UNCHANGED <<commands, work>>
    /\ UNCHANGED <<started, beam, surfaces, trees, segments, sent, changes>>

\* Mutant of despawn: every tree entity is despawned, not the one named.
despawn_every(world, id) == {}

\* The entities left after despawning entity id.
despawn(world, id) == { t \in world : t.id # id }

\* The tree entities left after the despawn commands of cs are applied.
RECURSIVE apply_despawns(_, _)
apply_despawns(world, cs) ==
    IF cs = <<>> THEN world
    ELSE apply_despawns(
            IF Head(cs)[1] = "despawn" THEN despawn(world, Head(cs)[2]) ELSE world,
            Tail(cs))

\* The segments the spawn commands of cs add.
spawned_segments(cs) ==
    { cs[k][2] : k \in { j \in 1..Len(cs) : cs[j][1] = "spawn" } }

\* The end of the stage: once the reader is drained the queued commands are
\* applied to the world, in order.
apply_commands ==
    /\ events = <<>>
    /\ commands # <<>>
    /\ trees' = apply_despawns(trees, commands)
    /\ segments' = segments \cup spawned_segments(commands)
    /\ commands' = <<>>
    /\ UNCHANGED <<started, beam, surfaces, events, iter, sent, handled,
                   changes, work>>

Next ==
    \/ setup_system
    \/ source_changed
    \/ raycast_system
    \/ apply_commands

Spec == Init /\ [][Next]_vars

\* raycast_system runs every frame and the stage applies its commands, so
\* neither waits forever; the environment need not send anything.  The
\* weak fairness of raycast_system is written out, []<>~ENABLED \/ []<><<A>>,
\* with its enabling condition in place of ENABLED: an iteration is possible
\* exactly when an event is unread, and it always changes the state.
FairSpec ==
    /\ Spec
    /\ ([]<>(events = <<>>) \/ []<><<raycast_system>>_vars)
    /\ WF_vars(apply_commands)

\* ------------------------------------------------------------ kernel inputs
\* Rays for the parallel test of intersect: along the floor, straight down,
\* lying in the floor's line, tilted off the floor by 2^-21 (a nonzero
\* denominator below 0.000001 against a unit segment), and of zero direction.
KernelRays ==
    { Ray_new(VZ(2, 6), VZ(1, 0), Z(1)),
      Ray_new(VZ(2, 6), VZ(0, -1), Z(1)),
      Ray_new(VZ(2, 0), VZ(1, 0), Z(1)),
      Ray_new(Vec2(Q(1, 2), Z(0)), Vec2(Z(1), Q(1, 2097152)), Z(1)),
      Ray_new(VZ(2, 6), VZ(0, 0), Z(1)) }

\* Surfaces for the parallel test: a floor, a floor of unit length, a wall
\* and a segment of zero length.
KernelCandidates ==
    { Surface_blocker(VZ(0, 0), VZ(12, 0)),
      Surface_blocker(VZ(0, 0), VZ(1, 0)),
      Surface_blocker(VZ(11, 0), VZ(11, 12)),
      Surface_glass(VZ(5, 6), VZ(5, 6), Q(3, 2)) }

\* The surface lists of up to MaxSurfaces distinct kernel candidates.
RECURSIVE KernelScenesOfLen(_)
KernelScenesOfLen(n) ==
    IF n = 0 THEN {<<>>}
    ELSE { Append(sc, c) : sc \in KernelScenesOfLen(n - 1),
                           c \in KernelCandidates }

KernelScenes ==
    { sc \in UNION { KernelScenesOfLen(n) : n \in 0..MaxSurfaces } :
        \A i, j \in 1..Len(sc) : i # j => sc[i] # sc[j] }

\* A world whose surfaces are a kernel scene and whose one unread event
\* carries a kernel ray.
KernelInit ==
    /\ started = TRUE
    /\ beam = None
    /\ surfaces \in KernelScenes
    /\ trees = {}
    /\ segments = {}
    /\ \E r \in KernelRays :
          /\ events = << RaycastEvent(1, 1, Some(r), None) >>
          /\ sent = events
    /\ commands = <<>>
    /\ iter = None
    /\ handled = <<>>
    /\ changes = 0
    /\ work = [s \in Sources |-> [tests |-> 0, rays |-> 0]]

KernelNext ==
    \/ raycast_system
    \/ apply_commands

\* intersect applied by raycast_system to every kernel ray and scene.
KernelSpec == KernelInit /\ [][KernelNext]_vars

\* ============================================================ properties
\* The last iteration of the event loop handled an event that carried a ray.
Built == iter # None /\ iter[1].ray # None

TheRay == iter[1].ray[1]

TheTree == iter[1].tree[1]

\* The surface the iteration used for the interaction (when sel # 0).
TheSurface == surfaces[iter[1].sel]

\* ------------------------------------------------------------ C1
\* C1: nearest-hit search.  The surface used for the interaction has the
\* minimal intersection parameter among all surfaces hit with a finite
\* t > 0.1: no surface with a strictly smaller qualifying t is passed over,
\* and a surface is used whenever one qualifies.
C1_NearestHit ==
    Built =>
        IF iter[1].sel = 0
        THEN \A k \in 1..Len(surfaces) : ~is_hit(intersect(TheRay, surfaces[k]))
        ELSE \A k \in 1..Len(surfaces) :
                is_hit(intersect(TheRay, surfaces[k]))
                    => ~QLt(intersect(TheRay, surfaces[k]),
                            intersect(TheRay, TheSurface))

\* ------------------------------------------------------------ C2
\* The RayTrees the store holds for source s.
StoredTrees(s) == { t \in trees : t.src = s }

\* C2: tree replacement.  Once an event with a ray for source S has been
\* handled and its commands applied, the store holds exactly one RayTree for
\* S, and it is the tree just built.
C2_TreeReplaced ==
    (Built /\ commands = <<>>) =>
        /\ Cardinality(StoredTrees(iter[1].src)) = 1
        /\ \A t \in StoredTrees(iter[1].src) : t.tree = TheTree

\* ------------------------------------------------------------ C3
\* Whether ray, whose direction is (sqrt(r), s) with sqrt(r) irrational, hits
\* the surface with a finite t > 0.1: the tests of intersect and of the hit
\* test, decided exactly on the signs of the numbers a + b*sqrt(r).  The
\* denominator a + b*sqrt(r) of intersect is irrational unless b = 0, and
\* where it is not 0 it is, for the coordinates of the model, far above the
\* 0.000001 of the parallel test, which is therefore the test for 0.
SurdHit(ray, surface) ==
    LET r == <<ray.l[1][1], ray.l[1][2]>>
        s == ray.l[2]
        v1 == VSub(ray.p, surface.p1)
        v2 == VSub(surface.p2, surface.p1)
        a == QNeg(QMul(v2[1], s))
        b == v2[2]
        c == perp_dot(v2, v1)
        e == QNeg(QMul(v1[1], s))
        f == v1[2]
        sg == SgnSurd(a, b, r)
    IN  /\ sg # 0
        /\ SgnSurd(QSub(QMul(Z(10), c), a), QNeg(b), r) = sg
        /\ SgnSurd(e, f, r) * sg >= 0
        /\ SgnSurd(QSub(a, e), QSub(b, f), r) * sg >= 0

\* Whether ray hits the surface with a finite t > 0.1.
RayHits(ray, surface) ==
    IF IsSqrt(ray.l[1]) THEN SurdHit(ray, surface)
    ELSE is_hit(intersect(ray, surface))

\* Whether propagation of ray would go on: the surface a nearest-hit search
\* selects for it is not absorbing.  For a direction with an irrational
\* component the hits are not ordered here, and propagation is taken to go on
\* only when the ray hits a surface and every surface it hits refracts.
WouldContinue(ray) ==
    LET hits == { k \in 1..Len(surfaces) : RayHits(ray, surfaces[k]) }
    IN  /\ hits # {}
        /\ IF IsSqrt(ray.l[1])
           THEN \A k \in hits : refracts(surfaces[k])
           ELSE \E k \in hits :
                  /\ refracts(surfaces[k])
                  /\ \A j \in hits :
                        QLe(intersect(ray, surfaces[k]), intersect(ray, surfaces[j]))
                  /\ \A j \in hits :
                        intersect(ray, surfaces[j]) = intersect(ray, surfaces[k])
                            => refracts(surfaces[j])

\* C3: propagation continues to a terminal condition.  The last ray of a
\* finished tree has no qualifying hit, or struck an absorbing surface, or
\* the tree is at the maximum-depth bound: the build never stops while its
\* last child ray would still hit a non-absorbing surface.
C3_PropagatesToTerminal ==
    Built =>
        LET n == Len(TheTree.branches)
        IN  \/ n >= MaxDepth
            \/ n = 0 /\ iter[1].sel = 0
            \/ n = 0 /\ iter[1].sel # 0 /\ ~refracts(TheSurface)
            \/ n > 0 /\ ~WouldContinue(TheTree.branches[n])

\* ------------------------------------------------------------ C4
\* C4: bounded tree build.  A built tree has at most one branch, which is
\* within the maximum-depth bound, and the intersection tests made for a
\* source number at most one per surface and root ray, which is within
\* rays * max_depth * surfaces.
C4_BoundedBuild ==
    /\ Built =>
          /\ Len(TheTree.branches) <= 1
          /\ Len(TheTree.branches) <= MaxDepth
          /\ Len(iter[1].ds) <= Len(surfaces)
    /\ \A s \in Sources :
          /\ work[s].tests <= work[s].rays * Len(surfaces)
          /\ work[s].tests <= work[s].rays * MaxDepth * Len(surfaces)

\* A ray was refracted at the first of two refracting surfaces that face
\* each other across its path.
C4_Witness ==
    /\ Built
    /\ Len(TheTree.branches) = 1
    /\ Len(surfaces) = 2
    /\ \A k \in 1..2 : refracts(surfaces[k]) /\ is_hit(intersect(TheRay, surfaces[k]))

\* ------------------------------------------------------------ C5
\* C5: absorption terminates the branch.  When the surface selected for the
\* ray has absorption >= 1, no child ray is appended and no surface after
\* it is scanned.
C5_AbsorptionTerminates ==
    (Built /\ iter[1].sel # 0 /\ QLe(Z(1), TheSurface.absorption)) =>
        /\ TheTree.branches = <<>>
        /\ Len(iter[1].ds) = iter[1].sel

\* A ray struck a blocker at oblique incidence, with surfaces after it.
C5_Witness ==
    /\ Built
    /\ iter[1].sel # 0
    /\ iter[1].sel < Len(surfaces)
    /\ QLe(Z(1), TheSurface.absorption)
    /\ dot(TheSurface.dp, TheRay.l) # Z(0)
    /\ TheTree.branches = <<>>

\* ------------------------------------------------------------ C6
\* The ids of the events handled so far.
HandledIds == { handled[k] : k \in 1..Len(handled) }

\* C6: per-source invalidation.  A step removes a tree from the store only
\* if a handled event with a ray, about that tree's source, names it; every
\* other tree stays, and the surface set does not change after startup.
C6_PerSourceInvalidation ==
    [][ /\ started => surfaces' = surfaces
        /\ \A t \in trees \ trees' :
              \E k \in 1..Len(sent) :
                 /\ sent[k].eid \in HandledIds
                 /\ sent[k].ray # None
                 /\ sent[k].src = t.src
                 /\ sent[k].tree = Some(t.id) ]_vars

\* The tree an event named is gone and another source still owns its tree.
C6_Witness ==
    /\ Built
    /\ commands = <<>>
    /\ iter[1].named # None
    /\ surfaces # <<>>
    /\ StoredTrees(iter[1].src) = {}
    /\ \E s \in Sources : s # iter[1].src /\ StoredTrees(s) # {}

\* ------------------------------------------------------------ C7
\* The events sent so far whose ray starts at the sampled offset x of beam b
\* and runs along the beam.
EventsOfOffset(b, x) ==
    { k \in 1..Len(sent) :
        /\ sent[k].ray # None
        /\ sent[k].ray[1].p = VAdd(b.pos, VScale(perp(b.direction), x))
        /\ sent[k].ray[1].l = b.direction }

\* After startup every sampled offset lies across the waist and has exactly
\* one event, whose ray carries the index of the source.
C7_Sampled ==
    started =>
        LET b == beam[1]
            xs == sample_offsets(b)
        IN  \A k \in 1..Len(xs) :
              /\ QLe(QAbs(xs[k]), QDiv(b.waist, Z(2)))
              /\ Cardinality(EventsOfOffset(b, xs[k])) = 1
              /\ \A e \in EventsOfOffset(b, xs[k]) : sent[e].ray[1].index = b.index

\* Number of times event id e has been handled.
TimesHandled(e) == Cardinality({ k \in 1..Len(handled) : handled[k] = e })

\* The ids an event can have.
EventIds ==
    UNION { 1..(Len(sample_offsets(b)) + MaxChanges) : b \in Beams }

\* C7: all root rays are processed.  Every sampled offset has exactly one
\* root ray and event, with the source's index; no event is handled twice;
\* and every event sent is eventually handled.
C7_AllRootRaysProcessed ==
    /\ [](C7_Sampled /\ \A e \in EventIds : TimesHandled(e) <= 1)
    /\ \A e \in EventIds : (Len(sent) >= e) ~> (TimesHandled(e) = 1)

\* Both root rays of a beam sampled twice across its waist were handled.
C7_Witness ==
    /\ started
    /\ Len(sample_offsets(beam[1])) = 2
    /\ events = <<>>
    /\ TimesHandled(1) = 1 /\ TimesHandled(2) = 1

\* ------------------------------------------------------------ C8
\* The point p lies on the segment of the surface.
OnSegment(p, surface) ==
    LET w == VSub(p, surface.p1)
        v2 == VSub(surface.p2, surface.p1)
    IN  /\ perp_dot(v2, w) = Z(0)
        /\ QLe(Z(0), dot(w, v2))
        /\ QLe(dot(w, v2), dot(v2, v2))

\* The rays of the built tree whose direction is rational or NaN.
TreeRays ==
    {TheTree.root} \cup
    { TheTree.branches[k] : k \in { j \in 1..Len(TheTree.branches) :
                                      ~IsSqrt(TheTree.branches[j].l[1]) } }

\* C8: intersect soundness.  For every ray of the tree and every surface,
\* intersect returns INFINITY or a finite t >= 0 at which the ray is on the
\* segment; it never returns a negative value or NaN.
C8_IntersectSound ==
    Built =>
        \A r \in TreeRays : \A k \in 1..Len(surfaces) :
            LET d == intersect(r, surfaces[k])
            IN  \/ d = INFINITY
                \/ /\ is_finite(d)
                   /\ QLe(Z(0), d)
                   /\ OnSegment(hit_point(r, d), surfaces[k])

\* A ray crossed the inside of a segment obliquely, with another surface
\* behind its origin.
C8_Witness ==
    /\ Built
    /\ \E k \in 1..Len(surfaces) :
          LET d == intersect(TheRay, surfaces[k])
              p == hit_point(TheRay, d)
          IN  /\ is_finite(d)
              /\ QLt(Z(0), d)
              /\ p # surfaces[k].p1 /\ p # surfaces[k].p2
              /\ dot(surfaces[k].dp, TheRay.l) # Z(0)
    /\ \E k \in 1..Len(surfaces) : intersect(TheRay, surfaces[k]) = INFINITY

\* ------------------------------------------------------------ C9
\* C9: normal orientation.  The normal used for the refraction at a hit on
\* a non-absorbing surface faces the incoming ray: its dot product with
\* ray.l is negative.
C9_NormalFacesRay ==
    (Built /\ iter[1].normal # None) =>
        QLt(dot(iter[1].normal[1], TheRay.l), Z(0))

\* ------------------------------------------------------------ C10
\* The law of reflection: l - 2(l.n)n.
Reflected(l, n) == VSub(l, VScale(n, QMul(Z(2), dot(l, n))))

\* The refracted sine sin_incident * (ray.index / surface.index), where
\* sin_incident is |perp(n).l|.
RefractedSine(ray, surface) ==
    QDiv(QMul(QAbs(dot(perp(surface.normal), ray.l)), ray.index), surface.index)

\* C10: total internal reflection.  No child ray with an undefined
\* direction is stored, and when the refracted sine exceeds 1 at a hit on
\* a non-absorbing surface the tree gets no child or the reflected ray.
C10_NoChildOnTIR ==
    Built =>
        /\ \A k \in 1..Len(TheTree.branches) : ~IsNaNVec(TheTree.branches[k].l)
        /\ (/\ iter[1].sel # 0
            /\ refracts(TheSurface)
            /\ QLt(Z(1), RefractedSine(TheRay, TheSurface)))
           => \/ TheTree.branches = <<>>
              \/ TheTree.branches[1].l = Reflected(TheRay.l, TheSurface.normal)

\* ------------------------------------------------------------ C11
\* The pair has a finite denominator (p2 - p1) . perp(ray.l) of magnitude
\* below 1e-6.
BelowEpsilon(ray, surface) ==
    /\ IsRatVec(ray.l)
    /\ QLt(QAbs(dot(VSub(surface.p2, surface.p1), perp(ray.l))),
           Q(1, 1000000))

\* C11: parallel and degenerate input.  For every ray/segment pair whose
\* denominator has magnitude below 1e-6 (parallel ray, zero-length segment
\* or zero direction), intersect returns INFINITY, both as raycast_system
\* computed it and as a function, and does not divide by the denominator.
C11_ParallelIsInfinity ==
    Built =>
        \A k \in 1..Len(surfaces) :
            BelowEpsilon(TheRay, surfaces[k]) =>
                /\ intersect(TheRay, surfaces[k]) = INFINITY
                /\ ~divides(TheRay, surfaces[k])
                /\ k <= Len(iter[1].ds) => iter[1].ds[k] = INFINITY

\* raycast_system tested a ray against a unit segment with a nonzero
\* denominator below 1e-6 and against a segment of zero length.
C11_Witness ==
    /\ Built
    /\ Len(iter[1].ds) = 2
    /\ \E k \in 1..2 :
          /\ BelowEpsilon(TheRay, surfaces[k])
          /\ denominator(TheRay, surfaces[k]) # Z(0)
          /\ iter[1].ds[k] = INFINITY
    /\ \E k \in 1..2 :
          /\ surfaces[k].p1 = surfaces[k].p2
          /\ iter[1].ds[k] = INFINITY

====
